---- MODULE Spec2Model ----
(***************************************************************************)
(* Ai-Vision: the streaming detection run of app/objvision.py.             *)
(*                                                                         *)
(* One call of process_video is modelled from the opening of the source    *)
(* to the return (or raise): VideoCapture construction, ImageProcessor     *)
(* construction, video-writer setup, the frame loop (one action per        *)
(* iteration), the finally block (one action per release step) and the     *)
(* code after it.                                                          *)
(***************************************************************************)
EXTENDS Integers, Sequences, FiniteSets, TLC

(***************************************************************************)
(* Bounds of the model.                                                    *)
(***************************************************************************)
\* The source delivers at most this many frames before end of input.
MaxFrames == 3
\* At most this many loop iterations are explored in one run.
MaxIter == 5

(***************************************************************************)
(* Program constants.                                                      *)
(***************************************************************************)
KEY_QUIT == 113
KEY_PAUSE == 112

(***************************************************************************)
(* Strings are sequences of one-character strings.                         *)
(***************************************************************************)
Digits == {"0", "1", "2", "3", "4", "5", "6", "7", "8", "9"}

\* str.lower() on one character (the letters the model's paths use).
LowerChar(c) ==
    CASE c = "H" -> "h" [] c = "T" -> "t" [] c = "P" -> "p" [] c = "S" -> "s"
      [] c = "R" -> "r" [] c = "M" -> "m" [] c = "U" -> "u" [] c = "D" -> "d"
      [] c = "Y" -> "y" [] c = "A" -> "a"
      [] OTHER -> c

Lower(s) == [i \in 1..Len(s) |-> LowerChar(s[i])]

\* The characters str.strip() removes (those the model's strings use).
Whitespace == {" ", "\t", "\n"}

RECURSIVE LStrip(_)
LStrip(s) == IF s # <<>> /\ Head(s) \in Whitespace THEN LStrip(Tail(s)) ELSE s

RECURSIVE RStrip(_)
RStrip(s) ==
    IF s # <<>> /\ s[Len(s)] \in Whitespace
    THEN RStrip(SubSeq(s, 1, Len(s) - 1)) ELSE s

\* str.strip()
Strip(s) == LStrip(RStrip(s))

\* str.isdigit(): non-empty and every character a digit.
IsDigit(s) == s # <<>> /\ \A i \in 1..Len(s) : s[i] \in Digits

StartsWith(s, p) == Len(s) >= Len(p) /\ SubSeq(s, 1, Len(p)) = p

STREAM_URL_PREFIXES ==
    { <<"h", "t", "t", "p", ":", "/", "/">>,
      <<"h", "t", "t", "p", "s", ":", "/", "/">>,
      <<"r", "t", "s", "p", ":", "/", "/">>,
      <<"r", "t", "m", "p", ":", "/", "/">>,
      <<"u", "d", "p", ":", "/", "/">> }

\* Faulty variant of CaptureKind: the path is not lower-cased.
CaptureKind_CaseSensitive(path) ==
    IF IsDigit(path) THEN "camera"
    ELSE IF \E p \in STREAM_URL_PREFIXES : StartsWith(Strip(path), p)
         THEN "stream"
         ELSE "file"

\* The kind VideoCapture.__init__ gives a string video_path.
CaptureKind(path) ==
    IF IsDigit(path) THEN "camera"
    ELSE IF \E p \in STREAM_URL_PREFIXES : StartsWith(Strip(Lower(path)), p)
         THEN "stream"
         ELSE "file"

\* The video_path arguments of the model: a camera index, a stream URL and a
\* file path.
Paths ==
    { <<"0">>,
      <<"r", "t", "s", "p", ":", "/", "/", "c">>,
      <<"a", ".", "m", "p", "4">> }

(***************************************************************************)
(* The detection decoder: ImageProcessor.get_coordinates and               *)
(* draw_identified_objects.                                                *)
(*                                                                         *)
(* Numbers are fixed-point: a confidence or threshold c is the integer     *)
(* 100*c, a normalised coordinate v of a network row is the integer        *)
(* CoordDen*v.  A network row is the sequence                              *)
(* << cx, cy, w, h, objectness, score of class 0, score of class 1, ... >>.*)
(***************************************************************************)
\* Denominator of the normalised coordinates of a row.
CoordDen == 16

\* NMS_THRESHOLD_OFFSET = 0.1, in hundredths.
NMS_THRESHOLD_OFFSET == 10

\* DEFAULT_CONFIDENCE_THRESHOLD = 0.5, in hundredths.
DEFAULT_CONFIDENCE_THRESHOLD == 50

\* self.classes: the catalog loaded from the names file (index i-1 at i).
classes == << "person", "car" >>

\* PREDEFINED_COLORS, by name.
PREDEFINED_COLORS == << "red", "green", "blue", "cyan", "magenta", "yellow" >>

\* _generate_colors for a catalog no larger than the palette.
generate_colors(num_classes) == SubSeq(PREDEFINED_COLORS, 1, num_classes)

\* int(a / b) for b > 0: truncation toward zero.
Trunc(a, b) == IF a >= 0 THEN a \div b ELSE -((-a) \div b)

\* np.argmax(scores), 0-based: the first index holding the maximum.
ArgMax(scores) ==
    (CHOOSE i \in 1..Len(scores) :
        /\ \A j \in 1..Len(scores) : scores[j] <= scores[i]
        /\ \A j \in 1..(i - 1) : scores[j] < scores[i]) - 1

\* The integer box of a row for a frame of size << W, H >>:
\*   x, y, w, h = output[:4] * [W, H, W, H]
\*   box = [int(x - w//2), int(y - h//2), int(w), int(h)]
\* where // is floor division (of floats) and int() truncates.
DecodeBox(row, size) ==
    LET x  == row[1] * size[1]
        y  == row[2] * size[2]
        w  == row[3] * size[1]
        h  == row[4] * size[2]
        hw == w \div (2 * CoordDen)
        hh == h \div (2 * CoordDen)
    IN  [x |-> Trunc(x - CoordDen * hw, CoordDen),
         y |-> Trunc(y - CoordDen * hh, CoordDen),
         w |-> Trunc(w, CoordDen),
         h |-> Trunc(h, CoordDen)]

\* Faulty variant of PassesConfidence: the comparison is not strict.
PassesConfidence_NotStrict(confidence, conf) == confidence >= conf

\* "if confidence > conf"
PassesConfidence(confidence, conf) == confidence > conf

\* The candidate a row contributes: its box, best score and best class.
Candidate(row, size) ==
    LET scores  == SubSeq(row, 6, Len(row))
        classID == ArgMax(scores)
    IN  [box |-> DecodeBox(row, size), confidence |-> scores[classID + 1],
         classID |-> classID]

\* The first loop of get_coordinates: boxes, confidences and classIDs of the
\* rows that pass the confidence filter, in row order.
RECURSIVE Candidates(_, _, _)
Candidates(outputs, conf, size) ==
    IF outputs = << >> THEN << >>
    ELSE LET c == Candidate(Head(outputs), size) IN
         (IF PassesConfidence(c.confidence, conf) THEN << c >> ELSE << >>)
            \o Candidates(Tail(outputs), conf, size)

\* Area of a box and of the intersection of two boxes (cv::Rect).
Max(a, b) == IF a >= b THEN a ELSE b
Min(a, b) == IF a <= b THEN a ELSE b
Area(b) == b.w * b.h
Intersection(a, b) ==
    LET iw == Min(a.x + a.w, b.x + b.w) - Max(a.x, b.x)
        ih == Min(a.y + a.h, b.y + b.h) - Max(a.y, b.y)
    IN  IF iw > 0 /\ ih > 0 THEN iw * ih ELSE 0

\* Faulty variant of IoUExceeds: the comparison is the wrong way round.
IoUExceeds_Inverted(a, b, t) ==
    LET i == Intersection(a, b)
        u == Area(a) + Area(b) - i
    IN  IF Area(a) + Area(b) <= 0 THEN 100 < t ELSE 100 * i < t * u

\* IoU(a, b) > t for a cutoff t in hundredths.  As cv::dnn's rectOverlap:
\* two boxes of zero area overlap completely.
IoUExceeds(a, b, t) ==
    LET i == Intersection(a, b)
        u == Area(a) + Area(b) - i
    IN  IF Area(a) + Area(b) <= 0 THEN 100 > t ELSE 100 * i > t * u

\* Stable sort of candidate indices by descending score (std::stable_sort).
RECURSIVE InsertByScore(_, _, _)
InsertByScore(i, sorted, scores) ==
    IF sorted = << >> THEN << i >>
    ELSE IF scores[Head(sorted)] >= scores[i]
         THEN << Head(sorted) >> \o InsertByScore(i, Tail(sorted), scores)
         ELSE << i >> \o sorted

RECURSIVE SortByScore(_, _)
SortByScore(idx, scores) ==
    IF idx = << >> THEN << >>
    ELSE InsertByScore(idx[Len(idx)],
                       SortByScore(SubSeq(idx, 1, Len(idx) - 1), scores), scores)

\* The greedy pass: an index is kept when its box exceeds the cutoff with no
\* index kept before it.
RECURSIVE Greedy(_, _, _, _)
Greedy(order, kept, bxs, nms_threshold) ==
    IF order = << >> THEN kept
    ELSE LET i == Head(order) IN
         Greedy(Tail(order),
                IF \A n \in 1..Len(kept) : ~IoUExceeds(bxs[kept[n]], bxs[i], nms_threshold)
                THEN Append(kept, i) ELSE kept,
                bxs, nms_threshold)

\* Faulty variant of the greedy pass: an index is compared with the index
\* that precedes it in score order, kept or not.
RECURSIVE GreedyAdjacent(_, _, _, _, _)
GreedyAdjacent(order, prev, kept, bxs, nms_threshold) ==
    IF order = << >> THEN kept
    ELSE LET i == Head(order) IN
         GreedyAdjacent(Tail(order), i,
                IF prev = 0 \/ ~IoUExceeds(bxs[prev], bxs[i], nms_threshold)
                THEN Append(kept, i) ELSE kept,
                bxs, nms_threshold)

\* The indices above the score threshold, in index order.
ScoreIndices(scores, score_threshold) ==
    LET RECURSIVE From(_)
        From(i) == IF i > Len(scores) THEN << >>
                   ELSE (IF scores[i] > score_threshold THEN << i >> ELSE << >>)
                            \o From(i + 1)
    IN  From(1)

\* Faulty variant of NMSBoxes: suppression against the preceding index.
NMSBoxes_Adjacent(bxs, scores, score_threshold, nms_threshold) ==
    GreedyAdjacent(SortByScore(ScoreIndices(scores, score_threshold), scores),
                   0, << >>, bxs, nms_threshold)

\* Faulty variant of NMSBoxes: no suppression at all.
NMSBoxes_KeepAll(bxs, scores, score_threshold, nms_threshold) ==
    SortByScore(ScoreIndices(scores, score_threshold), scores)

\* cv.dnn.NMSBoxes(boxes, confidences, score_threshold, nms_threshold): the
\* kept indices (1-based here), in descending score order.
NMSBoxes(bxs, scores, score_threshold, nms_threshold) ==
    Greedy(SortByScore(ScoreIndices(scores, score_threshold), scores),
           << >>, bxs, nms_threshold)

\* nms_threshold = conf - NMS_THRESHOLD_OFFSET
NmsThreshold(conf) == conf - NMS_THRESHOLD_OFFSET

\* The survivors of NMS among candidates `cands`, as candidates.
Survivors(cands, conf, nms_threshold) ==
    LET kept == NMSBoxes([i \in 1..Len(cands) |-> cands[i].box],
                         [i \in 1..Len(cands) |-> cands[i].confidence],
                         conf, nms_threshold)
    IN  [n \in 1..Len(kept) |-> cands[kept[n]]]

\* The dictionary get_coordinates builds for a surviving candidate.
Format(c) ==
    [x |-> c.box.x, y |-> c.box.y, w |-> c.box.w, h |-> c.box.h,
     class |-> c.classID, class_name |-> classes[c.classID + 1],
     confidence |-> c.confidence]

\* Faulty variant of get_coordinates: an empty result is reported as an error.
get_coordinates_NoEmptyReturn(outputs, conf, size) ==
    LET s == Survivors(Candidates(outputs, conf, size), conf, NmsThreshold(conf)) IN
    IF Len(s) = 0
    THEN [status |-> "raised", error |-> "IndexError", dets |-> << >>]
    ELSE [status |-> "returned", error |-> "none",
          dets |-> [n \in 1..Len(s) |-> Format(s[n])]]

\* get_coordinates(outputs, conf) on a processor built for frames of `size`.
\* A row without class scores makes np.argmax raise ValueError; a surviving
\* class index outside the catalog makes self.classes[...] raise KeyError.
\* No other check of the rows is made.
get_coordinates(outputs, conf, size) ==
    IF \E r \in 1..Len(outputs) : Len(outputs[r]) <= 5
    THEN [status |-> "raised", error |-> "ValueError", dets |-> << >>]
    ELSE LET s == Survivors(Candidates(outputs, conf, size), conf, NmsThreshold(conf)) IN
         IF \E n \in 1..Len(s) : s[n].classID >= Len(classes)
         THEN [status |-> "raised", error |-> "KeyError", dets |-> << >>]
         ELSE [status |-> "returned", error |-> "none",
               dets |-> [n \in 1..Len(s) |-> Format(s[n])]]

\* draw_identified_objects(img, coordinates): the colours drawn, or the error.
\* The colour index wraps around; the label looks the class up in the catalog.
draw_identified_objects(coordinates) ==
    LET colors == generate_colors(Len(classes)) IN
    IF \E n \in 1..Len(coordinates) : coordinates[n].class >= Len(classes)
    THEN [status |-> "raised", error |-> "KeyError", drawn |-> << >>]
    ELSE [status |-> "returned", error |-> "none",
          drawn |-> [n \in 1..Len(coordinates) |->
                        colors[(coordinates[n].class % Len(colors)) + 1]]]

(***************************************************************************)
(* State.                                                                  *)
(***************************************************************************)
VARIABLES
    video_path,     \* argument: the source string
    fileExists,     \* environment: video_path_obj.exists()
    canOpen,        \* environment: cap.isOpened() after construction
    nFrames,        \* environment: frames the source delivers before end of input
    save_output,    \* argument
    display,        \* argument
    pc,             \* position in process_video
    capState,       \* the cv.VideoCapture handle: none, created, open, released
    writer,         \* video_writer: none, open, released
    windows,        \* display windows: none, shown, destroyed
    pos,            \* frames delivered by the source so far
    frame,          \* the local `frame`: 0 is None, k is the k-th source frame
    paused,         \* the local `paused`
    frame_number,   \* the local `frame_number`
    all_detections, \* the local `all_detections`
    reads,          \* history: calls of video_cap.get_frame()
    detectLog,      \* history: frames handed to processor.process_image
    written,        \* history: frames handed to video_writer.write
    shown,          \* history: frames handed to cv.imshow
    polls,          \* history: completed cv.waitKey polls
    key,            \* history: the key code of the last poll ("none" before any)
    toggles,        \* history: pause-toggle keys seen
    iters,          \* history: loop iterations started
    stop,           \* why the loop ended: none, EndOfInput, UserQuit, Interrupted, FatalError
    pending,        \* exception in flight while the finally block runs
    cleanupLog,     \* history: release steps of the finally block, in order
    cleanupFailed,  \* history: a release step raised
    status,         \* running, returned, raised
    error,          \* class of the exception process_video raised
    result,         \* the returned list (<<>> unless status = "returned")
    outputs,        \* decoder: the network output, a sequence of rows
    conf,           \* decoder: the confidence threshold, in hundredths
    img_size,       \* decoder: << W, H >> of the frame
    dpc,            \* decoder: idle, start, decoded, failed, done
    candidates,     \* decoder: boxes/confidences/classIDs after the first loop
    coordinates,    \* decoder: what get_coordinates returned or raised
    drawIn,         \* decoder: the list handed to draw_identified_objects
    drawOut         \* decoder: what draw_identified_objects did

\* VideoCapture constructed on its own.
VARIABLES
    source,         \* the string handed to VideoCapture(...)
    calls           \* one record per construction: kind, whether the
                    \* filesystem was consulted, and how it ended

\* VideoFrameExtractor.extract_frames.
VARIABLES
    xsource,        \* self.video_path: a Python int or a Python str
    frame_interval, \* self.frame_interval
    max_frames,     \* the argument: [given |-> FALSE] stands for None
    srcFrames,      \* environment: frames the source delivers
    xpc,            \* position in extract_frames
    frame_count,
    saved_count,
    savedLog,       \* one record per cv2.imwrite: the frame and the index in
                    \* the file name
    interrupted,    \* a KeyboardInterrupt ended the loop
    xerror,         \* the exception extract_frames raised, or "none"
    xresult         \* the value returned

\* LabelUtils: packaging the labelled images.
VARIABLES
    image_files,    \* base names of the images in the source directory
    label_files,    \* base names of the label files in the source directory
    missing_labels, \* images process_makesense_labels announced as skipped
    obj_dir,        \* files in the obj directory
    copied_count,
    remaining,      \* images the copy loop has not reached yet
    archive,        \* files in obj.zip
    kpc             \* position in the packaging workflow

\* ObjDetection.run: the interactive session.
VARIABLES
    mpc,            \* the prompt the session waits at, or how it ended
    caller,         \* the workflow step in progress: "extract", "detect", "none"
    self_classes,   \* self.classes
    menus,          \* number of times the menu was displayed
    video_files,    \* number of videos find_video_files found
    selected_video, \* the value get_video_input returned
    input_type,     \* the type tag get_video_input returned, or "none"
    interval,       \* frame interval the extraction will use
    limit,          \* max_frames the extraction will use
    confidence_threshold,
    save_choice,
    lastPrompt,     \* the prompt answered last
    lastAnswer,     \* the answer given to it
    reported,       \* the error the step in progress reported, or "none"
    escaped,        \* the exception that left run(), or "none"
    classesBefore   \* self.classes when the step in progress began

vars == << video_path, fileExists, canOpen, nFrames, save_output, display, pc,
           capState, writer, windows, pos, frame, paused, frame_number,
           all_detections, reads, detectLog, written, shown, polls, key, toggles,
           iters, stop, pending, cleanupLog, cleanupFailed, status, error, result,
           outputs, conf, img_size, dpc, candidates, coordinates, drawIn, drawOut,
           source, calls,
           xsource, frame_interval, max_frames, srcFrames, xpc, frame_count,
           saved_count, savedLog, interrupted, xerror, xresult,
           image_files, label_files, missing_labels, obj_dir, copied_count,
           remaining, archive, kpc,
           mpc, caller, self_classes, menus, video_files, selected_video,
           input_type, interval, limit, confidence_threshold, save_choice,
           lastPrompt, lastAnswer, reported, escaped, classesBefore >>

decoderVars == << outputs, conf, img_size, dpc, candidates, coordinates, drawIn, drawOut >>

\* No result yet.
NoResult == [status |-> "none", error |-> "none", dets |-> << >>]
NoDrawing == [status |-> "none", error |-> "none", drawn |-> << >>]

\* The decoder is not in use.
DecoderIdle ==
    /\ outputs = << >>
    /\ conf = 0
    /\ img_size = << 0, 0 >>
    /\ dpc = "idle"
    /\ candidates = << >>
    /\ coordinates = NoResult
    /\ drawIn = << >>
    /\ drawOut = NoDrawing

captureVars == << source, calls >>

\* No VideoCapture is constructed on its own.
CaptureIdle == source = << >> /\ calls = << >>

extractVars == << xsource, frame_interval, max_frames, srcFrames, xpc, frame_count,
                 saved_count, savedLog, interrupted, xerror, xresult >>

\* max_frames=None
NoLimit == [given |-> FALSE, val |-> 0]

\* extract_frames is not running.
ExtractIdle ==
    /\ xsource = [type |-> "int", num |-> 0, str |-> << >>]
    /\ frame_interval = 1
    /\ max_frames = NoLimit
    /\ srcFrames = 0
    /\ xpc = "idle"
    /\ frame_count = 0
    /\ saved_count = 0
    /\ savedLog = << >>
    /\ interrupted = FALSE
    /\ xerror = "none"
    /\ xresult = 0

packVars == << image_files, label_files, missing_labels, obj_dir, copied_count,
              remaining, archive, kpc >>

\* Nothing is being packaged.
PackIdle ==
    /\ image_files = {}
    /\ label_files = {}
    /\ missing_labels = {}
    /\ obj_dir = {}
    /\ copied_count = 0
    /\ remaining = {}
    /\ archive = {}
    /\ kpc = "idle"

sessionVars == << mpc, caller, self_classes, menus, video_files, selected_video,
                 input_type, interval, limit, confidence_threshold, save_choice,
                 lastPrompt, lastAnswer, reported, escaped, classesBefore >>

\* No session is running.
SessionIdle ==
    /\ mpc = "idle"
    /\ caller = "none"
    /\ self_classes = << >>
    /\ menus = 0
    /\ video_files = 0
    /\ selected_video = [type |-> "int", num |-> 0, str |-> << >>]
    /\ input_type = "none"
    /\ interval = 0
    /\ limit = [given |-> FALSE, val |-> 0]
    /\ confidence_threshold = 0
    /\ save_choice = FALSE
    /\ lastPrompt = "none"
    /\ lastAnswer = << >>
    /\ reported = "none"
    /\ escaped = "none"
    /\ classesBefore = << >>

inputs == << video_path, fileExists, canOpen, nFrames, save_output, display >>

loopVars == << pos, frame, paused, frame_number, all_detections, reads,
               detectLog, written, shown, polls, key, toggles, iters >>

Init ==
    /\ video_path \in Paths
    /\ fileExists \in BOOLEAN
    /\ CaptureKind(video_path) # "file" => ~fileExists \* consulted for files only
    /\ canOpen \in BOOLEAN
    /\ nFrames \in 0..MaxFrames
    /\ save_output \in BOOLEAN
    /\ display \in BOOLEAN
    /\ pc = "start"
    /\ capState = "none"
    /\ writer = "none"
    /\ windows = "none"
    /\ pos = 0
    /\ frame = 0
    /\ paused = FALSE
    /\ frame_number = 0
    /\ all_detections = <<>>
    /\ reads = 0
    /\ detectLog = <<>>
    /\ written = <<>>
    /\ shown = <<>>
    /\ polls = 0
    /\ key = "none"
    /\ toggles = 0
    /\ iters = 0
    /\ stop = "none"
    /\ pending = "none"
    /\ cleanupLog = <<>>
    /\ cleanupFailed = FALSE
    /\ status = "running"
    /\ error = "none"
    /\ result = <<>>
    /\ DecoderIdle
    /\ CaptureIdle
    /\ ExtractIdle
    /\ PackIdle
    /\ SessionIdle

\* process_video raises `e` to its caller.
Raise(e) ==
    /\ status' = "raised"
    /\ error' = e
    /\ pc' = "done"

(***************************************************************************)
(* Setup.                                                                  *)
(***************************************************************************)
\* VideoCapture(video_path) inside process_video's first try block.
OpenCapture ==
    /\ pc = "start"
    /\ LET k == CaptureKind(video_path) IN
         IF k = "file" /\ ~fileExists
         THEN \* raised before cv.VideoCapture is constructed
              /\ Raise("VideoProcessingError")
              /\ UNCHANGED capState
         ELSE IF ~canOpen
         THEN \* the handle exists; __init__ raises without releasing it
              /\ capState' = "created"
              /\ Raise(IF k = "stream" THEN "StreamConnectionError"
                                       ELSE "VideoProcessingError")
         ELSE /\ capState' = "open"
              /\ pc' = "processor"
              /\ UNCHANGED << status, error >>
    /\ UNCHANGED << inputs, decoderVars, captureVars, sessionVars, packVars, extractVars, loopVars, writer, windows, stop, pending,
                    cleanupLog, cleanupFailed, result >>

\* What ImageProcessor(...) can do: succeed, raise one of the two errors the
\* except clause names, or raise anything else (an unreadable names file).
ProcessorOutcomes == {"ok", "ModelLoadError", "VideoProcessingError", "Exception"}

\* Does process_video release the capture when ImageProcessor raises `o`?
ReleasesOnProcessorError(o) == o \in {"ModelLoadError", "VideoProcessingError"}

InitProcessor(o) ==
    /\ pc = "processor"
    /\ IF o = "ok"
       THEN /\ pc' = "writer"
            /\ UNCHANGED << capState, status, error >>
       ELSE /\ capState' = IF ReleasesOnProcessorError(o) THEN "released"
                                                         ELSE capState
            /\ Raise(o)
    /\ UNCHANGED << inputs, decoderVars, captureVars, sessionVars, packVars, extractVars, loopVars, writer, windows, stop, pending,
                    cleanupLog, cleanupFailed, result >>

\* Video-writer setup; cv.VideoWriter(...) may raise, outside any try block.
SetupWriter(fails) ==
    /\ pc = "writer"
    /\ fails => save_output
    /\ IF fails
       THEN /\ Raise("Exception")
            /\ UNCHANGED writer
       ELSE /\ writer' = IF save_output THEN "open" ELSE "none"
            /\ pc' = "loop"
            /\ UNCHANGED << status, error >>
    /\ UNCHANGED << inputs, decoderVars, captureVars, sessionVars, packVars, extractVars, loopVars, capState, windows, stop, pending,
                    cleanupLog, cleanupFailed, result >>

(***************************************************************************)
(* The frame loop.                                                         *)
(***************************************************************************)
\* VideoCapture.get_frame(): the next frame, or None (0) at end of input.
get_frame(p, n) == IF p < n THEN p + 1 ELSE 0

\* What cv.waitKey(1) can return: no key (-1), 'p', 'q', and 'q' with a
\* modifier bit above the low byte.
RawKeys == {-1, 112, 113, 65649}

\* key = cv.waitKey(1) & 0xFF
KeyCode(raw) == raw % 256

\* Faulty variant of FrameNumberAfter: the counter is never advanced.
FrameNumberAfter_Stuck(p, n) == n

\* "if not paused: frame_number += 1" at the end of an iteration.
FrameNumberAfter(p, n) == IF ~p THEN n + 1 ELSE n

\* The processing branch is guarded by "if frame is not None": the paused
\* flag is not consulted, and `frame` keeps the last frame read.
ProcessesFrame(p, f) == f # 0

\* Faulty variant of KeyEffect: the quit key is not recognised.
KeyEffect_NoQuit(k) == IF k = KEY_PAUSE THEN "toggle" ELSE "none"

\* The key branch: "quit" breaks, "toggle" flips paused, anything else is
\* ignored.
KeyEffect(k) ==
    IF k = KEY_QUIT THEN "quit" ELSE IF k = KEY_PAUSE THEN "toggle" ELSE "none"

\* The frames of the source are FrameSize wide and high.
FrameSize == << 8, 8 >>

\* outputs = np.vstack(self.net.forward(self.ln)) for source frame f (the
\* network's answer is a function of the frame): frame 1 holds one object,
\* frame 2 one row whose best score equals the threshold, frame 3 gives an
\* empty tensor, later frames hold two overlapping objects.
NetOutput(f) ==
    IF f = 1 THEN << <<1,1,4,4,95,90,10>> >>
    ELSE IF f = 2 THEN << <<10,10,6,4,70,30,50>> >>
    ELSE IF f = 3 THEN << >>
    ELSE << <<1,1,4,4,95,90,10>>, <<3,4,6,8,90,20,80>> >>

\* process_image(frame, confidence_threshold, draw=True), with the default
\* threshold process_video passes on: decode, then draw what was decoded.
process_image(f) ==
    LET c == get_coordinates(NetOutput(f), DEFAULT_CONFIDENCE_THRESHOLD, FrameSize)
        d == draw_identified_objects(c.dets)
    IN  IF c.status = "raised" THEN [status |-> "raised", error |-> c.error, dets |-> << >>]
        ELSE IF d.status = "raised" THEN [status |-> "raised", error |-> d.error, dets |-> << >>]
        ELSE c

\* The detections process_image returns for source frame f.
Detections(f) == process_image(f).dets

\* Where an exception can be raised inside one iteration, and of which kind.
Stages == {"read", "detect", "write", "show", "poll"}
ExcKinds == {"Exception", "KeyboardInterrupt"}

\* The except clauses of the loop's try statement: KeyboardInterrupt is
\* swallowed, any other Exception is re-raised as VideoProcessingError.
PendingAfter(kind) ==
    IF kind = "KeyboardInterrupt" THEN "none" ELSE "VideoProcessingError"

StopAfter(kind) ==
    IF kind = "KeyboardInterrupt" THEN "Interrupted" ELSE "FatalError"

\* Faulty variant of ReadsFrame: a frame is read in every iteration.
ReadsFrame_Always(p) == TRUE

\* "if not paused: frame = video_cap.get_frame()"
ReadsFrame(p) == ~p

\* One iteration of "while True". `at` is the stage that raises ("none" if
\* none does), `kind` the class of what it raises, `raw` what waitKey returns.
LoopBody(at, kind, raw) ==
    /\ pc = "loop"
    /\ LET doRead     == ReadsFrame(paused)
           readFails  == doRead /\ at = "read"
           f1         == IF doRead /\ ~readFails THEN get_frame(pos, nFrames)
                                                 ELSE frame
           eoi        == doRead /\ ~readFails /\ f1 = 0
           doProc     == ~readFails /\ ~eoi /\ ProcessesFrame(paused, f1)
           detRaises  == doProc /\ process_image(f1).status = "raised"
           detFails   == doProc /\ at = "detect"
           appended   == doProc /\ ~detFails
           doWrite    == appended /\ writer # "none"
           writeFails == doWrite /\ at = "write"
           doShow     == appended /\ ~writeFails /\ display
           showFails  == doShow /\ at = "show"
           doPoll     == ~readFails /\ ~eoi /\ ~detFails /\ ~writeFails /\ ~showFails
           pollFails  == doPoll /\ at = "poll"
           polled     == doPoll /\ ~pollFails
           effect     == IF polled THEN KeyEffect(KeyCode(raw)) ELSE "none"
           paused1    == IF effect = "toggle" THEN ~paused ELSE paused
           raised     == readFails \/ detFails \/ writeFails \/ showFails \/ pollFails
           ended      == eoi \/ raised \/ effect = "quit"
       IN
       /\ (at = "none") = ~raised
       /\ detRaises => (at = "detect" /\ kind = "Exception")
       /\ (at = "none") => kind = "Exception"
       /\ ~polled => raw = -1
       /\ iters' = iters + 1
       /\ reads' = IF doRead THEN reads + 1 ELSE reads
       /\ pos' = IF doRead /\ ~readFails /\ f1 # 0 THEN pos + 1 ELSE pos
       /\ frame' = f1
       /\ detectLog' = IF doProc THEN Append(detectLog, f1) ELSE detectLog
       /\ all_detections' =
             IF appended
             THEN Append(all_detections,
                         [frame |-> frame_number, detections |-> Detections(f1)])
             ELSE all_detections
       /\ written' = IF doWrite THEN Append(written, f1) ELSE written
       /\ shown' = IF doShow THEN Append(shown, f1) ELSE shown
       /\ windows' = IF doShow /\ ~showFails THEN "shown" ELSE windows
       /\ polls' = IF polled THEN polls + 1 ELSE polls
       /\ key' = IF polled THEN KeyCode(raw) ELSE key
       /\ toggles' = IF effect = "toggle" THEN toggles + 1 ELSE toggles
       /\ paused' = paused1
       /\ frame_number' = IF polled /\ effect # "quit"
                          THEN FrameNumberAfter(paused1, frame_number)
                          ELSE frame_number
       /\ stop' = IF eoi THEN "EndOfInput"
                  ELSE IF raised THEN StopAfter(kind)
                  ELSE IF effect = "quit" THEN "UserQuit"
                  ELSE "none"
       /\ pending' = IF raised THEN PendingAfter(kind) ELSE "none"
       /\ pc' = IF ended THEN "cleanup" ELSE "loop"
    /\ UNCHANGED << inputs, decoderVars, captureVars, sessionVars, packVars, extractVars, capState, writer, cleanupLog, cleanupFailed,
                    status, error, result >>

\* An iteration of the loop, at most MaxIter of them in one run.
LoopIteration(at, kind, raw) == iters < MaxIter /\ LoopBody(at, kind, raw)

(***************************************************************************)
(* The finally block and the code after it.                                *)
(***************************************************************************)
\* Faulty variant of CleanupPlan: the writer is released before the source.
CleanupPlan_WriterFirst(hasWriter, disp) ==
    (IF hasWriter THEN << "writer" >> ELSE << >>) \o << "source" >>
        \o (IF disp THEN << "display" >> ELSE << >>)

\* The release steps of the finally block, in program order.
CleanupPlan(hasWriter, disp) ==
    << "source" >> \o (IF hasWriter THEN << "writer" >> ELSE << >>)
                   \o (IF disp THEN << "display" >> ELSE << >>)

\* Does the finally block go on to the next step after a step raised?
ContinuesAfterFailure == FALSE

\* One release step; `fails` says that it raises.
CleanupStep(fails) ==
    /\ pc = "cleanup"
    /\ LET plan == CleanupPlan(writer # "none", display)
           i    == Len(cleanupLog) + 1
       IN
       /\ i <= Len(plan)
       /\ cleanupLog' = Append(cleanupLog, plan[i])
       /\ capState' = IF plan[i] = "source" /\ ~fails THEN "released" ELSE capState
       /\ writer' = IF plan[i] = "writer" /\ ~fails THEN "released" ELSE writer
       /\ windows' = IF plan[i] = "display" /\ ~fails THEN "destroyed" ELSE windows
       /\ cleanupFailed' = (cleanupFailed \/ fails)
       /\ IF fails /\ ~ContinuesAfterFailure
          THEN \* the exception leaves the finally block and replaces `pending`
               /\ Raise("Exception")
               /\ pending' = "none"
          ELSE UNCHANGED << pc, status, error, pending >>
    /\ UNCHANGED << inputs, decoderVars, captureVars, sessionVars, packVars, extractVars, loopVars, stop, result >>

\* The finally block has run to its end: the pending exception propagates,
\* or the statements after the try statement run and return all_detections.
Finish ==
    /\ pc = "cleanup"
    /\ Len(cleanupLog) = Len(CleanupPlan(writer # "none", display))
    /\ IF pending # "none"
       THEN /\ Raise(pending)
            /\ UNCHANGED result
       ELSE /\ status' = "returned"
            /\ result' = all_detections
            /\ pc' = "done"
            /\ UNCHANGED error
    /\ pending' = "none"
    /\ UNCHANGED << inputs, decoderVars, captureVars, sessionVars, packVars, extractVars, loopVars, capState, writer, windows, stop,
                    cleanupLog, cleanupFailed >>

Next ==
    \/ OpenCapture
    \/ \E o \in ProcessorOutcomes : InitProcessor(o)
    \/ \E f \in BOOLEAN : SetupWriter(f)
    \/ \E at \in Stages \cup {"none"}, kind \in ExcKinds, raw \in RawKeys :
          LoopIteration(at, kind, raw)
    \/ \E f \in BOOLEAN : CleanupStep(f)
    \/ Finish

Spec == Init /\ [][Next]_vars

(***************************************************************************)
(* Properties of process_video.                                            *)
(***************************************************************************)
\* The loop has ended and process_video has returned or raised.
LoopExited == stop # "none" /\ status # "running"

\* A step that reads no frame, detects nothing, appends nothing, writes and
\* shows nothing.
NoFrameWork ==
    /\ reads' = reads
    /\ pos' = pos
    /\ detectLog' = detectLog
    /\ all_detections' = all_detections
    /\ written' = written
    /\ shown' = shown

\* C1: an iteration that starts with paused set reads no frame, runs no
\* detection, appends no entry and writes or shows no frame; only the key poll
\* happens.  (The loop re-processes the last frame: violated.)
C1_PausedIterationOnlyPolls ==
    [][(pc = "loop" /\ paused /\ iters' = iters + 1) => NoFrameWork]_vars

\* C2: each frame read yields exactly one entry and the entries' frame
\* indices are 0, 1, 2, ... with no index repeated.  (Violated after a pause.)
C2_OneEntryPerFrameRead ==
    /\ \A i \in 1..Len(all_detections) : all_detections[i].frame = i - 1
    /\ stop \notin {"Interrupted", "FatalError"} => Len(all_detections) = pos

\* C3: a run over N frames with no pause-toggle, no quit key and no error
\* returns exactly N entries whose 'frame' values are 0..N-1 in order, the
\* i-th entry holding the detections of the i-th source frame.
C3_FullRunFrameIndices ==
    (status = "returned" /\ stop = "EndOfInput" /\ toggles = 0) =>
        result = [i \in 1..nFrames |->
                    [frame |-> i - 1, detections |-> Detections(i)]]

C3_Witness ==
    /\ status = "returned" /\ stop = "EndOfInput" /\ toggles = 0
    /\ nFrames >= 2 /\ Len(result) = nFrames

\* C4: however the loop ends, when process_video returns or raises the source
\* has been released, the writer has been released if one was created, and
\* the windows have been destroyed if display was on.  (Violated when a
\* release step raises: the steps after it are skipped.)
C4_ResourcesReleasedOnEveryExit ==
    LoopExited =>
        /\ capState = "released"
        /\ writer # "open"
        /\ display => windows = "destroyed"

\* C5: every release step runs even if an earlier one raised, and a cleanup
\* error does not reach the caller: the run ends as the loop decided.
\* (Violated: the finally block has no per-step protection.)
C5_CleanupIsBestEffort ==
    (LoopExited /\ cleanupFailed) =>
        /\ Len(cleanupLog) = 1 + (IF writer # "none" THEN 1 ELSE 0)
                               + (IF display THEN 1 ELSE 0)
        /\ IF stop = "FatalError"
           THEN status = "raised" /\ error = "VideoProcessingError"
           ELSE status = "returned"

\* Position of a release step in the documented order.
Rank(step) == CASE step = "source" -> 1 [] step = "writer" -> 2 [] step = "display" -> 3

\* C6: the release steps happen in the order source, writer (if any), display
\* (if on); nothing precedes the release of the source, and a cleanup in
\* which no step raised performs all of them.
C6_CleanupOrder ==
    /\ \A i, j \in 1..Len(cleanupLog) :
          i < j => Rank(cleanupLog[i]) < Rank(cleanupLog[j])
    /\ cleanupLog # << >> => cleanupLog[1] = "source"
    /\ (writer # "none" /\ \E i \in 1..Len(cleanupLog) : cleanupLog[i] = "display")
          => \E i \in 1..Len(cleanupLog) : cleanupLog[i] = "writer"
    /\ (LoopExited /\ ~cleanupFailed) =>
          /\ \E i \in 1..Len(cleanupLog) : cleanupLog[i] = "source"
          /\ writer # "none" => \E i \in 1..Len(cleanupLog) : cleanupLog[i] = "writer"
          /\ display => \E i \in 1..Len(cleanupLog) : cleanupLog[i] = "display"

C6_Witness ==
    LoopExited /\ cleanupLog = << "source", "writer", "display" >>

\* C7: a KeyboardInterrupt inside the loop is not propagated: process_video
\* returns normally with the entries accumulated up to the interrupt.
\* (Violated when a release step raises after the interrupt.)
C7_InterruptReturnsNormally ==
    (LoopExited /\ stop = "Interrupted") =>
        status = "returned" /\ result = all_detections

\* C8: an exception other than KeyboardInterrupt while a frame is processed is
\* fatal: no further frame is read or processed, process_video raises
\* VideoProcessingError after cleanup and returns no partial results.
\* (Violated when a release step raises: that exception replaces it.)
C8_FatalErrorRaisesVideoProcessingError ==
    [][/\ stop = "FatalError" => NoFrameWork
       /\ (stop' = "FatalError" /\ status' # "running") =>
             status' = "raised" /\ error' = "VideoProcessingError" /\ result' = << >>
      ]_vars

\* C9: a quit key seen by the poll ends the loop in that iteration, paused or
\* not, and nothing is read, detected, appended, written or shown after it; a
\* pause-toggle key flips the paused flag and the loop goes on; no other key
\* changes the flag.
C9_QuitStopsToggleFlips ==
    [][/\ stop = "UserQuit" => (NoFrameWork /\ frame_number' = frame_number)
       /\ (polls' = polls + 1 /\ key' = KEY_QUIT) =>
             stop' = "UserQuit" /\ pc' = "cleanup" /\ paused' = paused
       /\ (polls' = polls + 1 /\ key' = KEY_PAUSE) =>
             paused' = ~paused /\ pc' = "loop" /\ stop' = "none"
       /\ (polls' = polls + 1 /\ key' \notin {KEY_QUIT, KEY_PAUSE}) =>
             paused' = paused /\ pc' = "loop"
      ]_vars

\* The quit key was honoured in a paused iteration and the run returned.
C9_Witness ==
    stop = "UserQuit" /\ paused /\ key = KEY_QUIT /\ status = "returned"

\* C10: when setup fails after the capture handle was created (VideoCapture
\* construction, ImageProcessor construction, video-writer setup), the handle
\* is released before the error reaches the caller.  (Violated on three
\* paths.)
C10_NoCaptureLeakOnSetupFailure ==
    (status = "raised" /\ stop = "none") => capState \in {"none", "released"}

(***************************************************************************)
(* The decoder on its own: one call of get_coordinates followed by one     *)
(* call of draw_identified_objects, for every network output, confidence   *)
(* threshold and frame size of the sets below.                             *)
(***************************************************************************)
\* A network output holds at most this many rows.
MaxRows == 4

\* Well-formed rows (5 + 2 columns).  On an 8 x 8 frame their boxes are
\* (0,0,2,2), (0,0,3,4), (0,1,2,4), (1,1,2,3) and (4,4,3,2); the last one's
\* best score equals the default threshold.
GoodRows ==
    { << 1, 1, 4, 4, 95, 90, 10 >>,
      << 3, 4, 6, 8, 90, 20, 80 >>,
      << 2, 6, 4, 8, 85, 70, 5 >>,
      << 4, 5, 4, 6, 80, 60, 60 >>,
      << 10, 10, 6, 4, 70, 30, 50 >> }

\* Outputs whose rows are not 5 + 2 columns wide: no class score, one class
\* score, and three class scores with the best in the first or the last.
MalformedOutputs ==
    { << << 1, 1, 4, 4, 95 >> >>,
      << << 1, 1, 4, 4, 95, 90 >> >>,
      << << 1, 1, 4, 4, 95, 90, 10, 5 >> >>,
      << << 1, 1, 4, 4, 95, 10, 20, 90 >> >> }

SeqsUpTo(S, n) == UNION { [1..k -> S] : k \in 0..n }

Outputs == SeqsUpTo(GoodRows, MaxRows) \cup MalformedOutputs

\* Confidence thresholds 0.05, 0.4, 0.5 and 0.6.
Thresholds == {5, 40, 50, 60}

\* NMS cutoffs: those the thresholds give, 0 and 1.
Cutoffs == { NmsThreshold(c) : c \in Thresholds } \cup {0, 100}

ImgSizes == { << 8, 8 >>, << 16, 8 >> }

\* Lists handed to draw_identified_objects by a direct caller: one detection
\* of class index k.
DirectCalls ==
    { << [x |-> 0, y |-> 0, w |-> 2, h |-> 2, class |-> k, confidence |-> 90] >> :
        k \in 0..(Len(classes) + 1) }

\* process_video is not running.
VideoIdle ==
    /\ video_path = << >>
    /\ fileExists = FALSE
    /\ canOpen = FALSE
    /\ nFrames = 0
    /\ save_output = FALSE
    /\ display = FALSE
    /\ pc = "idle"
    /\ capState = "none"
    /\ writer = "none"
    /\ windows = "none"
    /\ pos = 0
    /\ frame = 0
    /\ paused = FALSE
    /\ frame_number = 0
    /\ all_detections = << >>
    /\ reads = 0
    /\ detectLog = << >>
    /\ written = << >>
    /\ shown = << >>
    /\ polls = 0
    /\ key = "none"
    /\ toggles = 0
    /\ iters = 0
    /\ stop = "none"
    /\ pending = "none"
    /\ cleanupLog = << >>
    /\ cleanupFailed = FALSE
    /\ status = "idle"
    /\ error = "none"
    /\ result = << >>

videoVars == << inputs, loopVars, pc, capState, writer, windows, stop, pending,
                cleanupLog, cleanupFailed, status, error, result >>

InitDecode ==
    /\ VideoIdle
    /\ CaptureIdle
    /\ ExtractIdle
    /\ PackIdle
    /\ SessionIdle
    /\ outputs \in Outputs
    /\ conf \in Thresholds
    /\ img_size \in ImgSizes
    /\ dpc = "start"
    /\ candidates = << >>
    /\ coordinates = NoResult
    /\ drawIn = << >>
    /\ drawOut = NoDrawing

\* coordinates = self.get_coordinates(outputs, confidence_threshold)
GetCoordinates ==
    /\ dpc = "start"
    /\ coordinates' = get_coordinates(outputs, conf, img_size)
    /\ candidates' = IF \E r \in 1..Len(outputs) : Len(outputs[r]) <= 5
                     THEN << >>
                     ELSE Candidates(outputs, conf, img_size)
    /\ dpc' = IF coordinates'.status = "returned" THEN "decoded" ELSE "failed"
    /\ UNCHANGED << videoVars, captureVars, sessionVars, packVars, extractVars, outputs, conf, img_size, drawIn, drawOut >>

\* self.draw_identified_objects(img, coords): by process_image with the list
\* get_coordinates returned, or by a direct caller with a list of its own.
DrawIdentifiedObjects(coords) ==
    /\ dpc = "decoded"
    /\ drawIn' = coords
    /\ drawOut' = draw_identified_objects(coords)
    /\ dpc' = "done"
    /\ UNCHANGED << videoVars, captureVars, sessionVars, packVars, extractVars, outputs, conf, img_size, candidates, coordinates >>

NextDecode ==
    \/ GetCoordinates
    \/ \E coords \in {coordinates.dets} \cup DirectCalls : DrawIdentifiedObjects(coords)

SpecDecode == InitDecode /\ [][NextDecode]_vars

(***************************************************************************)
(* Properties of the decoder.                                              *)
(***************************************************************************)
Decoded == dpc \in {"decoded", "done"}
Range(s) == { s[i] : i \in 1..Len(s) }

\* The box of a detection dictionary.
BoxOf(d) == [x |-> d.x, y |-> d.y, w |-> d.w, h |-> d.h]

\* C11: an output with a row whose width is not 5 + number of classes makes
\* get_coordinates fail with MalformedModelOutput; no detections are returned
\* from it.  (Violated: the width is never checked.)
C11_MalformedOutputRejected ==
    (dpc # "start" /\ \E r \in 1..Len(outputs) : Len(outputs[r]) # 5 + Len(classes)) =>
        coordinates.status = "raised" /\ coordinates.error = "MalformedModelOutput"

\* C12: a row whose best class score is at or below the threshold is
\* discarded by the filter, and every returned detection has confidence
\* strictly above the threshold.
C12_ConfidenceStrictlyAbove ==
    dpc # "start" =>
        /\ \A i \in 1..Len(candidates) : candidates[i].confidence > conf
        /\ \A n \in 1..Len(coordinates.dets) : coordinates.dets[n].confidence > conf

\* A row with best score equal to the threshold was decoded away while
\* another row was returned.
C12_Witness ==
    /\ Decoded
    /\ \E r \in 1..Len(outputs) : Len(outputs[r]) = 7 /\ Candidate(outputs[r], img_size).confidence = conf
    /\ Len(coordinates.dets) >= 1

\* C13: no two returned detections have IoU above conf - 0.1, whatever their
\* classes, and every candidate that is not returned has IoU above it with a
\* returned detection of equal or higher confidence.
C13_NmsSeparatesSurvivors ==
    Decoded =>
        LET dets == coordinates.dets
            t    == conf - NMS_THRESHOLD_OFFSET
        IN  /\ \A m, n \in 1..Len(dets) :
                  m # n => ~IoUExceeds(BoxOf(dets[m]), BoxOf(dets[n]), t)
            /\ \A i \in 1..Len(candidates) :
                  \/ Format(candidates[i]) \in Range(dets)
                  \/ \E n \in 1..Len(dets) :
                        /\ dets[n].confidence >= candidates[i].confidence
                        /\ IoUExceeds(BoxOf(dets[n]), candidates[i].box, t)

\* A candidate of another class was suppressed and two detections survived.
C13_Witness ==
    /\ Decoded
    /\ Len(coordinates.dets) >= 2
    /\ \E i \in 1..Len(candidates) :
          /\ Format(candidates[i]) \notin Range(coordinates.dets)
          /\ \A n \in 1..Len(coordinates.dets) :
                coordinates.dets[n].class # candidates[i].classID

\* The returned detections as raw candidates.
FedBack == [n \in 1..Len(coordinates.dets) |->
               [box |-> BoxOf(coordinates.dets[n]),
                confidence |-> coordinates.dets[n].confidence,
                classID |-> coordinates.dets[n].class]]

\* C14: suppression run again on the returned detections, with the same
\* threshold and cutoff, returns the same set of detections.
C14_NmsIdempotent ==
    Decoded =>
        { Format(s) : s \in Range(Survivors(FedBack, conf, NmsThreshold(conf))) }
            = Range(coordinates.dets)

\* Something was suppressed in the first pass and two detections went back in.
C14_Witness ==
    Decoded /\ Len(coordinates.dets) >= 2 /\ Len(candidates) > Len(coordinates.dets)

\* C15: for the same rows, a higher confidence threshold never returns more
\* detections.  (Violated: the NMS cutoff rises with the threshold.)
C15_ThresholdMonotone ==
    Decoded =>
        \A c2 \in Thresholds :
            c2 >= conf =>
                Len(get_coordinates(outputs, c2, img_size).dets) <= Len(coordinates.dets)

\* Number of survivors of the candidates under cutoff t.
SurvivorCount(t) == Len(Survivors(candidates, conf, t))

\* C16 as stated: for the candidates that passed the filter, a higher NMS
\* cutoff never leaves fewer survivors.  (Violated with four candidates.)
C16_CutoffMonotone ==
    Decoded =>
        \A t1, t2 \in Cutoffs : t1 <= t2 => SurvivorCount(t1) <= SurvivorCount(t2)

\* C16 as amended: the same, for at most three candidates.
C16_CutoffMonotoneUpToThree ==
    (dpc = "decoded" /\ Len(candidates) <= 3) =>
        \A t1, t2 \in Cutoffs : t1 <= t2 => SurvivorCount(t1) <= SurvivorCount(t2)

\* Three candidates of which a higher cutoff lets more survive.
C16_Witness ==
    /\ dpc = "decoded" /\ Len(candidates) = 3
    /\ \E t1, t2 \in Cutoffs : t1 < t2 /\ SurvivorCount(t1) < SurvivorCount(t2)

\* The box the claim describes: truncation of the exact centre - extent/2.
ExactBox(row, size) ==
    [x |-> Trunc(2 * row[1] * size[1] - row[3] * size[1], 2 * CoordDen),
     y |-> Trunc(2 * row[2] * size[2] - row[4] * size[2], 2 * CoordDen),
     w |-> Trunc(row[3] * size[1], CoordDen),
     h |-> Trunc(row[4] * size[2], CoordDen)]

\* C17: the box of every row that passes the filter is
\* (trunc(cx*W - w*W/2), trunc(cy*H - h*H/2), trunc(w*W), trunc(h*H)).
\* (Violated: the code subtracts floor(w*W/2), not w*W/2.)
C17_BoxIsTruncatedExactCorner ==
    (Decoded /\ \A r \in 1..Len(outputs) : Len(outputs[r]) = 5 + Len(classes)) =>
        \A r \in 1..Len(outputs) :
            Candidate(outputs[r], img_size).confidence > conf =>
                \E i \in 1..Len(candidates) :
                    /\ candidates[i].box = ExactBox(outputs[r], img_size)
                    /\ candidates[i].confidence = Candidate(outputs[r], img_size).confidence

\* C19: drawing a detection whose class index is at or beyond the catalog
\* size completes, with the colour at index (class mod number of colours).
\* (Violated: the label lookup raises KeyError.)
C19_DrawWrapsClassIndex ==
    (dpc = "done" /\ \E n \in 1..Len(drawIn) : drawIn[n].class >= Len(classes)) =>
        /\ drawOut.status = "returned"
        /\ \A n \in 1..Len(drawIn) :
              drawOut.drawn[n] = generate_colors(Len(classes))
                                     [(drawIn[n].class % Len(generate_colors(Len(classes)))) + 1]

\* Source frame f gives the decoder nothing above the threshold.
NothingAboveThreshold(f) ==
    \A r \in 1..Len(NetOutput(f)) :
        Candidate(NetOutput(f)[r], FrameSize).confidence <= DEFAULT_CONFIDENCE_THRESHOLD

MaxCalls == 2

\* str.upper() on one character (the letters of the scheme names).
UpperChar(c) ==
    CASE c = "h" -> "H" [] c = "t" -> "T" [] c = "p" -> "P" [] c = "s" -> "S"
      [] c = "r" -> "R" [] c = "m" -> "M" [] c = "u" -> "U" [] c = "d" -> "D"
      [] OTHER -> c

Upper(s) == [i \in 1..Len(s) |-> UpperChar(s[i])]
Capitalize(s) == [i \in 1..Len(s) |-> IF i = 1 THEN UpperChar(s[i]) ELSE s[i]]

\* Scheme-like openings: the five schemes in three spellings, and two
\* openings that are no scheme.
Openings ==
    UNION { {p, Upper(p), Capitalize(p)} : p \in STREAM_URL_PREFIXES }
        \cup { <<"f", "t", "p", ":", "/", "/">>, <<"h", "t", "t", "p", ":", "/">> }

Leads == { << >>, <<" ">>, <<"\t">>, <<"\n", " ">> }
Rests == { << >>, <<"c">>, <<"c", " ">> }

\* The strings VideoCapture is constructed on.
Sources ==
    { l \o o \o r : l \in Leads, o \in Openings, r \in Rests }
        \cup { << >>, <<"0">>, <<"1", "2">>, <<" ", "1">>, <<"1", " ">>,
               <<"1", "a">>, <<"a", ".", "m", "p", "4">>,
               <<"/", "v", "/", "A", ".", "M", "P", "4">> }

InitCapture ==
    /\ VideoIdle
    /\ DecoderIdle
    /\ ExtractIdle
    /\ PackIdle
    /\ SessionIdle
    /\ source \in Sources
    /\ calls = << >>

\* Faulty variant of VideoCapture_init: the capture is constructed before
\* the existence test.
VideoCapture_init_OpenFirst(path, exists, opens) ==
    LET k == CaptureKind(path) IN
    [kind |-> k, consulted |-> k = "file", exists |-> exists, handle |-> TRUE,
     outcome |-> IF (k = "file" /\ ~exists) \/ ~opens THEN "VideoProcessingError"
                 ELSE "open",
     message |-> IF k = "file" /\ ~exists THEN "Video file not found"
                 ELSE IF ~opens THEN "Could not open video source" ELSE "none"]

\* Faulty variant of VideoCapture_init: every open failure is reported with
\* the generic error.
VideoCapture_init_GenericOnly(path, exists, opens) ==
    LET k == CaptureKind(path) IN
    [kind |-> k, consulted |-> k = "file", exists |-> exists,
     handle |-> ~(k = "file" /\ ~exists),
     outcome |-> IF (k = "file" /\ ~exists) \/ ~opens THEN "VideoProcessingError"
                 ELSE "open",
     message |-> IF k = "file" /\ ~exists THEN "Video file not found"
                 ELSE IF ~opens THEN "Could not open video source" ELSE "none"]

\* VideoCapture.__init__(path).  `exists` is what Path.exists() would answer,
\* `opens` what cap.isOpened() answers.  `handle` tells whether
\* cv.VideoCapture(...) was constructed.
VideoCapture_init(path, exists, opens) ==
    LET k == CaptureKind(path) IN
    IF k = "file" /\ ~exists
    THEN [kind |-> k, consulted |-> TRUE, exists |-> exists, handle |-> FALSE,
          outcome |-> "VideoProcessingError", message |-> "Video file not found"]
    ELSE IF ~opens
    THEN IF k = "stream"
         THEN [kind |-> k, consulted |-> FALSE, exists |-> exists, handle |-> TRUE,
               outcome |-> "StreamConnectionError",
               message |-> "Could not connect to video stream"]
         ELSE [kind |-> k, consulted |-> k = "file", exists |-> exists, handle |-> TRUE,
               outcome |-> "VideoProcessingError",
               message |-> "Could not open video source"]
    ELSE [kind |-> k, consulted |-> k = "file", exists |-> exists, handle |-> TRUE,
          outcome |-> "open", message |-> "none"]

\* One construction of VideoCapture(source).
VideoCaptureInit(exists, opens) ==
    /\ Len(calls) < MaxCalls
    /\ calls' = Append(calls, VideoCapture_init(source, exists, opens))
    /\ UNCHANGED << videoVars, decoderVars, extractVars, packVars, sessionVars, source >>

NextCapture == \E exists, opens \in BOOLEAN : VideoCaptureInit(exists, opens)

SpecCapture == InitCapture /\ [][NextCapture]_vars

\* The string begins, after k characters, with p in some spelling.
SpelledAt(s, k, p) ==
    /\ Len(s) >= k + Len(p)
    /\ \A i \in 1..Len(p) : LowerChar(s[k + i]) = p[i]

OnlyDigits(s) == Len(s) >= 1 /\ \A i \in 1..Len(s) : s[i] \in Digits

\* C20 as stated: digits only -> camera; otherwise lower-cased form starts
\* with a scheme -> stream; otherwise file.  The same string always gets the
\* same kind, and the filesystem is consulted only for files.
\* (Violated: whitespace before the scheme is skipped.)
C20_ClassifiedByLowerCasedForm ==
    \A n \in 1..Len(calls) :
        /\ calls[n].kind =
             (IF OnlyDigits(source) THEN "camera"
              ELSE IF \E p \in STREAM_URL_PREFIXES : SpelledAt(source, 0, p) THEN "stream"
              ELSE "file")
        /\ calls[n].kind = calls[1].kind
        /\ calls[n].consulted => calls[n].kind = "file"

\* C20 as amended: the scheme is looked for in the lower-cased form with the
\* whitespace at both ends removed.
C20_ClassifiedByStrippedLowerCasedForm ==
    \A n \in 1..Len(calls) :
        /\ calls[n].kind =
             (IF OnlyDigits(source) THEN "camera"
              ELSE IF \E p \in STREAM_URL_PREFIXES : \E k \in 0..Len(source) :
                         /\ \A i \in 1..k : source[i] \in Whitespace
                         /\ SpelledAt(source, k, p)
                   THEN "stream"
              ELSE "file")
        /\ calls[n].kind = calls[1].kind
        /\ calls[n].consulted => calls[n].kind = "file"

\* An upper-case scheme after whitespace was taken for a stream twice, while
\* the filesystem changed between the calls.
C20_Witness ==
    /\ Len(calls) = 2
    /\ Len(source) >= 1 /\ source[1] \in Whitespace
    /\ \E p \in STREAM_URL_PREFIXES : \E k \in 1..Len(source) :
          /\ Len(source) >= k + Len(p)
          /\ \A i \in 1..Len(p) : source[k + i] = Upper(p)[i]
    /\ calls[1].kind = "stream" /\ calls[2].kind = "stream"
    /\ calls[1].exists # calls[2].exists
    /\ ~calls[1].consulted /\ ~calls[2].consulted

\* C21: a file-classified path that does not exist fails with the not-found
\* error before any attempt to open a capture: no handle is created.
C21_MissingFileFailsBeforeOpen ==
    \A n \in 1..Len(calls) :
        (calls[n].kind = "file" /\ ~calls[n].exists) =>
            /\ calls[n].outcome = "VideoProcessingError"
            /\ calls[n].message = "Video file not found"
            /\ ~calls[n].handle

\* A missing file was refused, then found and opened on the next call.
C21_Witness ==
    /\ Len(calls) = 2
    /\ calls[1].kind = "file" /\ ~calls[1].exists /\ ~calls[1].handle
    /\ calls[1].message = "Video file not found"
    /\ calls[2].exists /\ calls[2].outcome = "open"

\* The construction ended with an open failure.
OpenFailed(c) == c.handle /\ c.outcome # "open"

\* C22: on an open failure StreamConnectionError is raised exactly when the
\* source was classified as a stream; a camera or an existing file gets the
\* generic VideoProcessingError.
C22_StreamErrorIffStream ==
    \A n \in 1..Len(calls) :
        OpenFailed(calls[n]) =>
            /\ (calls[n].outcome = "StreamConnectionError") = (calls[n].kind = "stream")
            /\ calls[n].kind # "stream" => calls[n].outcome = "VideoProcessingError"

\* A stream failed to connect, then connected.
C22_Witness ==
    /\ Len(calls) = 2
    /\ calls[1].kind = "stream" /\ calls[1].outcome = "StreamConnectionError"
    /\ calls[2].outcome = "open"

\* C28: whenever process_video returns, the frame count it reports as
\* processed (the final frame_number) equals the number of entries in the
\* list it returns.  (Violated: a quit breaks out before the increment, and
\* paused iterations append without incrementing.)
C28_ReportedCountMatchesEntries ==
    (pc = "done" /\ status = "returned") => frame_number = Len(result)

\* The thresholds run_detection accepts: "0.0 <= confidence_threshold <= 1.0".
AcceptsThreshold(c) == 0 <= c /\ c <= 100

\* C30: for every threshold run_detection accepts, the NMS cutoff that
\* get_coordinates derives from it lies between 0 and 1.  (Violated below
\* NMS_THRESHOLD_OFFSET.)
C30_CutoffIsValidRatio ==
    (dpc # "start" /\ AcceptsThreshold(conf)) =>
        (0 <= NmsThreshold(conf) /\ NmsThreshold(conf) <= 100)

(***************************************************************************)
(* process_video on a run without errors and without the quit key.  Past   *)
(* MaxIter iterations the keys only let the run progress: a paused run is  *)
(* resumed, a running one is left alone.                                   *)
(***************************************************************************)
InitLive ==
    /\ Init
    /\ canOpen
    /\ fileExists = (CaptureKind(video_path) = "file")

\* The keys of such a run: none, the pause key, a key that is neither.
LiveKeys == {-1, KEY_PAUSE, 65649}

LoopLive(raw) ==
    /\ KeyEffect(KeyCode(raw)) # "quit"
    /\ \/ iters < MaxIter
       \/ IF paused THEN KeyEffect(KeyCode(raw)) = "toggle"
                    ELSE KeyEffect(KeyCode(raw)) = "none"
    /\ LoopBody("none", "Exception", raw)

\* An iteration of the loop is possible exactly while the loop is running.
LoopStep == \E raw \in LiveKeys : LoopLive(raw)

NextLive ==
    \/ OpenCapture
    \/ InitProcessor("ok")
    \/ SetupWriter(FALSE)
    \/ LoopStep
    \/ CleanupStep(FALSE)
    \/ Finish

\* The interpreter keeps executing the function: weak fairness of every
\* step.  For the loop, WF_vars(LoopStep) is written with
\* ENABLED <<LoopStep>>_vars spelled out as pc = "loop".
Fairness ==
    /\ WF_vars(OpenCapture)
    /\ WF_vars(InitProcessor("ok"))
    /\ WF_vars(SetupWriter(FALSE))
    /\ ([]<>(pc # "loop") \/ []<><<LoopStep>>_vars)
    /\ WF_vars(CleanupStep(FALSE))
    /\ WF_vars(Finish)

SpecLive == InitLive /\ [][NextLive]_vars /\ Fairness

\* C25: on a finite source, with no quit key, no error, and every pause
\* eventually followed by a resume, process_video eventually stops with end
\* of input, cleans up and returns; and end of input is only ever detected by
\* a read made while not paused.
C25_EndOfInputReachedAndReturned ==
    /\ (paused ~> ~paused) =>
           <>(/\ pc = "done" /\ status = "returned" /\ stop = "EndOfInput"
              /\ capState = "released")
    /\ [][(stop # "EndOfInput" /\ stop' = "EndOfInput") =>
              (~paused /\ reads' = reads + 1 /\ frame' = 0)]_vars

\* A run that was paused and resumed returned after the end of a two-frame
\* source.
C25_Witness ==
    /\ pc = "done" /\ status = "returned" /\ stop = "EndOfInput"
    /\ nFrames >= 2 /\ toggles >= 2 /\ reads = nFrames + 1

(***************************************************************************)
(* VideoFrameExtractor.extract_frames.                                     *)
(***************************************************************************)
MaxSource == 4
MaxInterval == 3
MaxLimit == 2

\* A video_path value: a Python int or a Python str.
IntValue(n) == [type |-> "int", num |-> n, str |-> << >>]
StrValue(s) == [type |-> "str", num |-> 0, str |-> s]

\* is_camera / is_stream as extract_frames computes them, and the branch it
\* takes.
ExtractKind(v) ==
    LET is_camera == v.type = "int" \/ IsDigit(v.str)
        is_stream == v.type = "str" /\
                     \E p \in STREAM_URL_PREFIXES : StartsWith(Strip(Lower(v.str)), p)
    IN  IF is_camera THEN "camera" ELSE IF is_stream THEN "stream" ELSE "file"

\* The sources frames are extracted from.
ExtractSources ==
    { IntValue(0), StrValue(<<"r", "t", "s", "p", ":", "/", "/", "c">>),
      StrValue(<<"a", ".", "m", "p", "4">>) }

\* The max_frames arguments: None and the integers from 0 to MaxLimit.
Limits == { NoLimit } \cup { [given |-> TRUE, val |-> n] : n \in 0..MaxLimit }

InitExtract ==
    /\ VideoIdle
    /\ DecoderIdle
    /\ CaptureIdle
    /\ PackIdle
    /\ SessionIdle
    /\ xsource \in ExtractSources
    /\ frame_interval \in 1..MaxInterval
    /\ max_frames \in Limits
    /\ srcFrames \in 0..MaxSource
    /\ xpc = "start"
    /\ frame_count = 0
    /\ saved_count = 0
    /\ savedLog = << >>
    /\ interrupted = FALSE
    /\ xerror = "none"
    /\ xresult = 0

\* Lines 54-93: the capture is opened, or the call raises.
ExtractOpen(exists, opens) ==
    /\ xpc = "start"
    /\ LET k == ExtractKind(xsource) IN
         /\ k # "file" => exists \* the filesystem is asked about files only
         /\ IF k = "file" /\ ~exists
            THEN xpc' = "raised" /\ xerror' = "VideoProcessingError"
            ELSE IF ~opens
            THEN /\ xpc' = "raised"
                 /\ xerror' = IF k = "stream" THEN "StreamConnectionError"
                                              ELSE "VideoProcessingError"
            ELSE xpc' = "loop" /\ UNCHANGED xerror
    /\ UNCHANGED << videoVars, decoderVars, captureVars, sessionVars, packVars, xsource, frame_interval,
                    max_frames, srcFrames, frame_count, saved_count, savedLog,
                    interrupted, xresult >>

\* "if max_frames and saved_count >= max_frames"
LimitReached(m, saved) == m.given /\ m.val # 0 /\ saved >= m.val

\* One iteration of the while loop (lines 116-137).
ExtractRead ==
    /\ xpc = "loop"
    /\ LET ret   == frame_count < srcFrames
           save  == ret /\ frame_count % frame_interval = 0
           saved == IF save THEN saved_count + 1 ELSE saved_count
           stop_ == save /\ LimitReached(max_frames, saved)
       IN
       /\ savedLog' = IF save
                      THEN Append(savedLog, [frame |-> frame_count, name |-> saved_count])
                      ELSE savedLog
       /\ saved_count' = saved
       /\ frame_count' = IF ret /\ ~stop_ THEN frame_count + 1 ELSE frame_count
       /\ xpc' = IF ~ret \/ stop_ THEN "release" ELSE "loop"
    /\ UNCHANGED << videoVars, decoderVars, captureVars, sessionVars, packVars, xsource, frame_interval,
                    max_frames, srcFrames, interrupted, xerror, xresult >>

\* Ctrl+C inside the loop: "except KeyboardInterrupt" (lines 138-140).
ExtractInterrupt ==
    /\ xpc = "loop"
    /\ interrupted' = TRUE
    /\ xpc' = "release"
    /\ UNCHANGED << videoVars, decoderVars, captureVars, sessionVars, packVars, xsource, frame_interval,
                    max_frames, srcFrames, frame_count, saved_count, savedLog,
                    xerror, xresult >>

\* cap.release() and "return saved_count" (lines 142-146).
ExtractReturn ==
    /\ xpc = "release"
    /\ xresult' = saved_count
    /\ xpc' = "returned"
    /\ UNCHANGED << videoVars, decoderVars, captureVars, sessionVars, packVars, xsource, frame_interval,
                    max_frames, srcFrames, frame_count, saved_count, savedLog,
                    interrupted, xerror >>

NextExtract ==
    \/ \E exists, opens \in BOOLEAN : ExtractOpen(exists, opens)
    \/ ExtractRead
    \/ ExtractInterrupt
    \/ ExtractReturn

SpecExtract == InitExtract /\ [][NextExtract]_vars

\* ceil(n / k) for k >= 1
CeilDiv(n, k) == (n + k - 1) \div k

\* C26: over a source of N frames with interval k >= 1, extract_frames saves
\* frame i exactly when i mod k = 0, names the images 0, 1, 2, ..., stops as
\* soon as max_frames images are saved when max_frames is given, and returns
\* the number saved: min(max_frames, ceil(N/k)), or ceil(N/k) without
\* max_frames.  (Violated: max_frames = 0 is taken for no limit.)
C26_ExtractCount ==
    (xpc = "returned" /\ ~interrupted) =>
        /\ \A j \in 1..Len(savedLog) :
              savedLog[j].frame = (j - 1) * frame_interval /\ savedLog[j].name = j - 1
        /\ xresult = Len(savedLog)
        /\ xresult = IF max_frames.given
                     THEN Min(max_frames.val, CeilDiv(srcFrames, frame_interval))
                     ELSE CeilDiv(srcFrames, frame_interval)

(***************************************************************************)
(* LabelUtils.process_makesense_labels followed by                         *)
(* create_labeled_images_zip_file, as step 2 of the workflow runs them.    *)
(* A file is [base |-> base name, kind |-> "image" or "label"].            *)
(***************************************************************************)
\* Base names of the files in the source directory.
Bases == {"img_00000", "img_00001", "img_00002", "img_00003"}

ImageFile(b) == [base |-> b, kind |-> "image"]
LabelFile(b) == [base |-> b, kind |-> "label"]

InitPack ==
    /\ VideoIdle
    /\ DecoderIdle
    /\ CaptureIdle
    /\ ExtractIdle
    /\ SessionIdle
    /\ image_files \in SUBSET Bases
    /\ label_files \in SUBSET Bases
    /\ missing_labels = {}
    /\ obj_dir = {}
    /\ copied_count = 0
    /\ remaining = {}
    /\ archive = {}
    /\ kpc = "start"

\* process_makesense_labels: the images without a label file are counted and
\* announced as "will be skipped"; nothing is moved or removed.
ProcessMakesenseLabels ==
    /\ kpc = "start"
    /\ missing_labels' = { b \in image_files : b \notin label_files }
    /\ kpc' = "copy"
    /\ remaining' = image_files
    /\ UNCHANGED << videoVars, decoderVars, captureVars, sessionVars, extractVars, image_files,
                    label_files, obj_dir, copied_count, archive >>

\* One iteration of "for img in image_files" (label_data.py 243-256).
CopyImage(b) ==
    /\ kpc = "copy"
    /\ b \in remaining
    /\ remaining' = remaining \ {b}
    /\ obj_dir' = obj_dir
                    \cup {ImageFile(b)}
                    \cup (IF b \in label_files THEN {LabelFile(b)} ELSE {})
    /\ copied_count' = IF b \in label_files THEN copied_count + 1 ELSE copied_count
    /\ UNCHANGED << videoVars, decoderVars, captureVars, sessionVars, extractVars, image_files,
                    label_files, missing_labels, archive, kpc >>

\* shutil.make_archive over the obj directory (label_data.py 261-273).
MakeArchive ==
    /\ kpc = "copy"
    /\ remaining = {}
    /\ archive' = obj_dir
    /\ kpc' = "zipped"
    /\ UNCHANGED << videoVars, decoderVars, captureVars, sessionVars, extractVars, image_files,
                    label_files, missing_labels, obj_dir, copied_count, remaining >>

NextPack ==
    \/ ProcessMakesenseLabels
    \/ \E b \in Bases : CopyImage(b)
    \/ MakeArchive

SpecPack == InitPack /\ [][NextPack]_vars

\* C27: images without a label file are skipped: every image copied into the
\* obj directory (and so into obj.zip) has its label file copied alongside.
\* (Violated: the image is copied before the label is looked for.)
C27_EveryPackagedImageHasLabel ==
    kpc = "zipped" =>
        /\ \A b \in Bases : ImageFile(b) \in obj_dir => LabelFile(b) \in obj_dir
        /\ \A b \in Bases : ImageFile(b) \in archive => LabelFile(b) \in archive
        /\ \A b \in missing_labels : ImageFile(b) \notin archive

(***************************************************************************)
(* The interactive session: ObjDetection.run and the two workflow steps    *)
(* that ask for a video source.  The session stops at every input() call;  *)
(* an action is the code from one answer to the next prompt.               *)
(***************************************************************************)
MaxMenus == 2

DEFAULT_FRAME_INTERVAL == 30
DEFAULT_CAMERA_INDEX == 0

DigitValue(c) ==
    CASE c = "0" -> 0 [] c = "1" -> 1 [] c = "2" -> 2 [] c = "3" -> 3 [] c = "4" -> 4
      [] c = "5" -> 5 [] c = "6" -> 6 [] c = "7" -> 7 [] c = "8" -> 8 [] c = "9" -> 9

RECURSIVE DigitsValue(_)
DigitsValue(s) ==
    IF s = << >> THEN 0
    ELSE 10 * DigitsValue(SubSeq(s, 1, Len(s) - 1)) + DigitValue(s[Len(s)])

\* int(s) for a stripped string: an optional sign and decimal digits, or
\* ValueError (ok = FALSE).
ParseInt(s) ==
    LET signed == s # << >> /\ Head(s) \in {"-", "+"}
        body   == IF signed THEN Tail(s) ELSE s
    IN  IF IsDigit(body)
        THEN [ok |-> TRUE,
              val |-> IF signed /\ Head(s) = "-" THEN 0 - DigitsValue(body)
                                                 ELSE DigitsValue(body)]
        ELSE [ok |-> FALSE, val |-> 0]

\* float(s) for the answers of the model, in hundredths: "nan", or an optional
\* sign, digits and at most two decimals; anything else is ValueError.
ParseFloat(s) ==
    LET signed == s # << >> /\ Head(s) \in {"-", "+"}
        body   == IF signed THEN Tail(s) ELSE s
        dots   == { i \in 1..Len(body) : body[i] = "." }
        d      == IF dots = {} THEN Len(body) + 1 ELSE CHOOSE i \in dots : TRUE
        ip     == SubSeq(body, 1, d - 1)
        fp     == SubSeq(body, d + 1, Len(body))
        mag    == 100 * DigitsValue(ip)
                    + (IF Len(fp) = 1 THEN 10 * DigitsValue(fp) ELSE DigitsValue(fp))
    IN  IF s = <<"n", "a", "n">> THEN [ok |-> TRUE, nan |-> TRUE, val |-> 0]
        ELSE IF /\ Cardinality(dots) <= 1
                /\ IsDigit(ip)
                /\ (dots = {} \/ (IsDigit(fp) /\ Len(fp) <= 2))
        THEN [ok |-> TRUE, nan |-> FALSE,
              val |-> IF signed /\ Head(s) = "-" THEN 0 - mag ELSE mag]
        ELSE [ok |-> FALSE, nan |-> FALSE, val |-> 0]

\* The exception classes and their base class.
Parent(e) ==
    CASE e = "StreamConnectionError" -> "VideoProcessingError"
      [] e \in {"VideoProcessingError", "InvalidInputError", "ModelLoadError",
                "LabelProcessingError"} -> "ObjectDetectionError"
      [] e \in {"ObjectDetectionError", "ValueError"} -> "Exception"
      [] OTHER -> "BaseException"

RECURSIVE IsA(_, _)
IsA(e, c) == e = c \/ (e # "BaseException" /\ IsA(Parent(e), c))

\* The except clauses around get_video_input, around the extraction and
\* around the detection.
ExceptClauses(site) ==
    CASE site = "video_input" -> {"InvalidInputError", "VideoProcessingError"}
      [] site = "extract" -> {"ValueError", "VideoProcessingError", "Exception"}
      [] site = "detect" -> {"VideoProcessingError", "Exception"}

\* Faulty variant of Catches: only VideoProcessingError is caught.
Catches_VideoErrorsOnly(site, e) == IsA(e, "VideoProcessingError")

\* Faulty variant of Catches: the errors of the run are not caught.
Catches_InputOnly(site, e) ==
    site = "video_input" /\ \E c \in ExceptClauses(site) : IsA(e, c)

Catches(site, e) == \E c \in ExceptClauses(site) : IsA(e, c)

\* VideoInputHandler.is_camera and is_stream.
is_camera(v) == v.type = "int"
is_stream(v) ==
    v.type = "str" /\ \E p \in STREAM_URL_PREFIXES : StartsWith(Strip(Lower(v.str)), p)

\* The kind VideoCapture.__init__ gives a value of either type.
VideoCaptureKind(v) == IF v.type = "int" THEN "camera" ELSE CaptureKind(v.str)

\* find_video_files: the videos of the media folder.
MediaFiles ==
    << <<"m", "/", "a", ".", "m", "p", "4">>, <<"m", "/", "1", ".", "a", "v", "i">> >>

\* Path(custom_path).resolve() on a relative path.
Resolve(path) == <<"/", "w", "/">> \o path

\* The answers typed at the prompts (already as input() returns them).
MenuAnswers == { <<"1">>, <<"2">>, <<"3">>, <<"4">>, <<"5">>, <<"9">>, <<"x">>, << >>,
                 <<" ", "5">> }
OptionAnswers == { << >>, <<"1">>, <<"2">>, <<"3">>, <<"4">>, <<"7">>, <<"x">> }
SelectAnswers == { << >>, <<"1">>, <<"2">>, <<"0">>, <<"3">>, <<"x">> }
PathAnswers == { << >>, <<"a", ".", "m", "p", "4">> }
YesNoAnswers == { <<"y">>, <<"Y">>, <<"n">>, << >> }
CameraAnswers == { << >>, <<"0">>, <<"1">>, <<"-", "1">>, <<"x">> }
UrlAnswers ==
    { << >>, <<"r", "t", "s", "p", ":", "/", "/", "c">>,
      <<"R", "T", "S", "P", ":", "/", "/", "c">>, <<"f", "o", "o">>, <<"1", "2">> }
NumberAnswers == { << >>, <<"5">>, <<"0">>, <<"-", "1">>, <<"x">>, <<"1", ".", "5">> }
ConfAnswers ==
    { << >>, <<"0", ".", "2", "5">>, <<"0", ".", "0", "5">>, <<"1">>, <<"0">>,
      <<"1", ".", "5">>, <<"-", "0", ".", "1">>, <<"n", "a", "n">>, <<"x">> }
ClassLists == { <<"cat">>, <<"cat", "dog">> }
ExtractOutcomes ==
    {"returned", "VideoProcessingError", "StreamConnectionError", "Exception",
     "KeyboardInterrupt"}
DetectOutcomes == ExtractOutcomes \cup {"ModelLoadError"}

nonSessionVars == << videoVars, decoderVars, captureVars, extractVars, packVars >>

InitSession ==
    /\ VideoIdle
    /\ DecoderIdle
    /\ CaptureIdle
    /\ ExtractIdle
    /\ PackIdle
    /\ mpc = "menu"
    /\ caller = "none"
    /\ self_classes \in { << >> } \cup ClassLists \* load_classes_from_file
    /\ menus = 1
    /\ video_files = 0
    /\ selected_video = IntValue(0)
    /\ input_type = "none"
    /\ interval = 0
    /\ limit = NoLimit
    /\ confidence_threshold = 0
    /\ save_choice = FALSE
    /\ lastPrompt = "none"
    /\ lastAnswer = << >>
    /\ reported = "none"
    /\ escaped = "none"
    /\ classesBefore = << >>

\* Exception e is raised inside the try block `site`: it is caught, reported
\* and the step returns, or it leaves run().
RaiseAt(site, e) ==
    IF Catches(site, e)
    THEN mpc' = "continue" /\ reported' = e /\ escaped' = "none"
    ELSE mpc' = "terminated" /\ reported' = "none" /\ escaped' = e

\* The prompt that follows get_video_input in the step in progress.
AfterInput == IF caller = "extract" THEN "interval" ELSE "conf"

\* get_video_input returned (v, tag).
Returned(v, tag) ==
    /\ selected_video' = v
    /\ input_type' = tag
    /\ mpc' = AfterInput
    /\ UNCHANGED << reported, escaped >>

\* run(): the menu is displayed and a choice is read.  `ready` is the
\* outcome of run_detection's checks (detection importable, cfg and weights
\* files present).
Menu(a, ready) ==
    LET choice == Strip(a) IN
    /\ mpc = "menu"
    /\ (choice # <<"4">> => ready)
    /\ lastPrompt' = "menu"
    /\ lastAnswer' = a
    /\ classesBefore' = self_classes
    /\ escaped' = "none"
    /\ video_files' = 0
    /\ selected_video' = IntValue(0)
    /\ input_type' = "none"
    /\ interval' = 0
    /\ limit' = NoLimit
    /\ confidence_threshold' = 0
    /\ save_choice' = FALSE
    /\ CASE choice = <<"1">> -> caller' = "extract" /\ mpc' = "option" /\ reported' = "none"
         [] choice = <<"2">> -> caller' = "labels" /\ mpc' = "labels" /\ reported' = "none"
         [] choice = <<"3">> -> caller' = "view" /\ mpc' = "continue" /\ reported' = "none"
         [] choice = <<"4">> ->
              /\ caller' = "detect"
              /\ mpc' = IF ready THEN "option" ELSE "continue"
              /\ reported' = IF ready THEN "none" ELSE "NotAvailable"
         [] choice = <<"5">> -> caller' = "none" /\ mpc' = "exited" /\ reported' = "none"
         [] OTHER -> caller' = "none" /\ mpc' = "continue" /\ reported' = "InvalidOption"
    /\ UNCHANGED << nonSessionVars, self_classes, menus >>

\* process_labels_and_prepare_training: the only step that assigns
\* self.classes (when it gets that far); its failures are caught inside it.
ProcessLabels(assigned, fails, found_classes) ==
    /\ mpc = "labels"
    /\ self_classes' = IF assigned THEN found_classes ELSE self_classes
    /\ reported' = IF fails THEN "LabelProcessingError" ELSE "none"
    /\ mpc' = "continue"
    /\ lastPrompt' = "labels"
    /\ lastAnswer' = << >>
    /\ UNCHANGED << nonSessionVars, caller, menus, video_files, selected_video,
                    input_type, interval, limit, confidence_threshold, save_choice,
                    escaped, classesBefore >>

\* get_video_input: "Select option (1-4, default 1)"; `found` is the number
\* of videos find_video_files returns.
AnswerOption(a, found) ==
    LET choice == IF Strip(a) = << >> THEN <<"1">> ELSE Strip(a) IN
    /\ mpc = "option"
    /\ lastPrompt' = "option"
    /\ lastAnswer' = a
    /\ (choice # <<"1">> => found = 0)
    /\ video_files' = found
    /\ CASE choice = <<"1">> ->
              IF found = 0 THEN RaiseAt("video_input", "VideoProcessingError")
              ELSE mpc' = "select" /\ UNCHANGED << reported, escaped >>
         [] choice = <<"2">> -> mpc' = "path" /\ UNCHANGED << reported, escaped >>
         [] choice = <<"3">> ->
              /\ mpc' = IF caller = "extract" THEN "webcam_confirm" ELSE "camera"
              /\ UNCHANGED << reported, escaped >>
         [] choice = <<"4">> -> mpc' = "url" /\ UNCHANGED << reported, escaped >>
         [] OTHER -> RaiseAt("video_input", "InvalidInputError")
    /\ UNCHANGED << nonSessionVars, caller, self_classes, menus, selected_video,
                    input_type, interval, limit, confidence_threshold, save_choice,
                    classesBefore >>

\* _select_from_media_folder: "Select video (1-n) or press Enter for first".
AnswerSelect(a) ==
    LET video_choice == IF Strip(a) = << >> THEN <<"1">> ELSE Strip(a)
        parsed == ParseInt(video_choice)
        video_index == parsed.val - 1
    IN
    /\ mpc = "select"
    /\ lastPrompt' = "select"
    /\ lastAnswer' = a
    /\ IF parsed.ok /\ 0 <= video_index /\ video_index < video_files
       THEN Returned(StrValue(MediaFiles[video_index + 1]), "file")
       ELSE /\ RaiseAt("video_input", "InvalidInputError")
            /\ UNCHANGED << selected_video, input_type >>
    /\ UNCHANGED << nonSessionVars, caller, self_classes, menus, video_files,
                    interval, limit, confidence_threshold, save_choice, classesBefore >>

\* _get_custom_path: "Enter video file path".
AnswerPath(a, exists) ==
    LET custom_path == Strip(a) IN
    /\ mpc = "path"
    /\ lastPrompt' = "path"
    /\ lastAnswer' = a
    /\ (custom_path = << >> => exists)
    /\ IF custom_path = << >>
       THEN /\ RaiseAt("video_input", "InvalidInputError")
            /\ UNCHANGED << selected_video, input_type >>
       ELSE IF ~exists
       THEN /\ RaiseAt("video_input", "VideoProcessingError")
            /\ UNCHANGED << selected_video, input_type >>
       ELSE Returned(StrValue(Resolve(custom_path)), "file")
    /\ UNCHANGED << nonSessionVars, caller, self_classes, menus, video_files,
                    interval, limit, confidence_threshold, save_choice, classesBefore >>

\* _get_webcam_input with require_confirmation: "Continue with webcam? (y/n)".
AnswerWebcamConfirm(a) ==
    LET confirm == Lower(Strip(a)) IN
    /\ mpc = "webcam_confirm"
    /\ lastPrompt' = "webcam_confirm"
    /\ lastAnswer' = a
    /\ IF confirm # <<"y">>
       THEN RaiseAt("video_input", "InvalidInputError")
       ELSE mpc' = "camera" /\ UNCHANGED << reported, escaped >>
    /\ UNCHANGED << nonSessionVars, caller, self_classes, menus, video_files,
                    selected_video, input_type, interval, limit,
                    confidence_threshold, save_choice, classesBefore >>

\* _get_webcam_input: "Enter camera index".
AnswerCamera(a) ==
    LET camera_input == Strip(a)
        parsed == ParseInt(camera_input)
    IN
    /\ mpc = "camera"
    /\ lastPrompt' = "camera"
    /\ lastAnswer' = a
    /\ IF camera_input # << >> /\ parsed.ok /\ parsed.val >= 0
       THEN Returned(IntValue(parsed.val), "camera")
       ELSE Returned(IntValue(DEFAULT_CAMERA_INDEX), "camera")
    /\ UNCHANGED << nonSessionVars, caller, self_classes, menus, video_files,
                    interval, limit, confidence_threshold, save_choice, classesBefore >>

\* _get_stream_input: "Enter video stream URL".
AnswerUrl(a) ==
    LET stream_url == Strip(a) IN
    /\ mpc = "url"
    /\ lastPrompt' = "url"
    /\ lastAnswer' = a
    /\ IF stream_url = << >>
       THEN /\ RaiseAt("video_input", "InvalidInputError")
            /\ UNCHANGED << selected_video, input_type >>
       ELSE IF \E p \in STREAM_URL_PREFIXES : StartsWith(Lower(stream_url), p)
       THEN Returned(StrValue(stream_url), "stream")
       ELSE /\ mpc' = "url_confirm"
            /\ selected_video' = StrValue(stream_url)
            /\ UNCHANGED << input_type, reported, escaped >>
    /\ UNCHANGED << nonSessionVars, caller, self_classes, menus, video_files,
                    interval, limit, confidence_threshold, save_choice, classesBefore >>

\* _get_stream_input: "Continue anyway? (y/n)" for a URL without a known
\* scheme; selected_video holds the URL typed.
AnswerUrlConfirm(a) ==
    LET confirm == Lower(Strip(a)) IN
    /\ mpc = "url_confirm"
    /\ lastPrompt' = "url_confirm"
    /\ lastAnswer' = a
    /\ IF confirm # <<"y">>
       THEN /\ RaiseAt("video_input", "InvalidInputError")
            /\ UNCHANGED << selected_video, input_type >>
       ELSE Returned(selected_video, "stream")
    /\ UNCHANGED << nonSessionVars, caller, self_classes, menus, video_files,
                    interval, limit, confidence_threshold, save_choice, classesBefore >>

\* extract_and_prepare_frames: "Frame interval".
AnswerInterval(a) ==
    LET interval_input == Strip(a)
        parsed == ParseInt(interval_input)
    IN
    /\ mpc = "interval"
    /\ lastPrompt' = "interval"
    /\ lastAnswer' = a
    /\ interval' = IF interval_input = << >> THEN DEFAULT_FRAME_INTERVAL
                   ELSE IF parsed.ok /\ parsed.val > 0 THEN parsed.val
                   ELSE DEFAULT_FRAME_INTERVAL
    /\ mpc' = IF is_camera(selected_video) \/ is_stream(selected_video)
              THEN "max" ELSE "run_extract"
    /\ UNCHANGED << nonSessionVars, caller, self_classes, menus, video_files,
                    selected_video, input_type, limit, confidence_threshold,
                    save_choice, reported, escaped, classesBefore >>

\* extract_and_prepare_frames: "Maximum frames to extract".
AnswerMax(a) ==
    LET max_input == Strip(a)
        parsed == ParseInt(max_input)
    IN
    /\ mpc = "max"
    /\ lastPrompt' = "max"
    /\ lastAnswer' = a
    /\ limit' = IF max_input # << >> /\ parsed.ok /\ parsed.val > 0
                THEN [given |-> TRUE, val |-> parsed.val]
                ELSE NoLimit
    /\ mpc' = "run_extract"
    /\ UNCHANGED << nonSessionVars, caller, self_classes, menus, video_files,
                    selected_video, input_type, interval, confidence_threshold,
                    save_choice, reported, escaped, classesBefore >>

\* extract_and_prepare_frames: VideoFrameExtractor(...).extract_frames(...)
\* returns a count or raises.
RunExtract(outcome) ==
    /\ mpc = "run_extract"
    /\ (outcome = "StreamConnectionError" => ExtractKind(selected_video) = "stream")
    /\ lastPrompt' = "run"
    /\ lastAnswer' = << outcome >>
    /\ IF outcome = "returned"
       THEN mpc' = "continue" /\ UNCHANGED << reported, escaped >>
       ELSE RaiseAt("extract", outcome)
    /\ UNCHANGED << nonSessionVars, caller, self_classes, menus, video_files,
                    selected_video, input_type, interval, limit,
                    confidence_threshold, save_choice, classesBefore >>

\* run_detection: "Confidence threshold (0.0-1.0)", in hundredths.
AnswerConf(a) ==
    LET conf_input == Strip(a)
        parsed == ParseFloat(conf_input)
    IN
    /\ mpc = "conf"
    /\ lastPrompt' = "conf"
    /\ lastAnswer' = a
    /\ confidence_threshold' =
           IF conf_input = << >> THEN DEFAULT_CONFIDENCE_THRESHOLD
           ELSE IF parsed.ok /\ ~parsed.nan /\ AcceptsThreshold(parsed.val)
           THEN parsed.val
           ELSE DEFAULT_CONFIDENCE_THRESHOLD
    /\ mpc' = "save"
    /\ UNCHANGED << nonSessionVars, caller, self_classes, menus, video_files,
                    selected_video, input_type, interval, limit, save_choice,
                    reported, escaped, classesBefore >>

\* run_detection: "Save output video? (y/n, default n)".
AnswerSave(a) ==
    /\ mpc = "save"
    /\ lastPrompt' = "save"
    /\ lastAnswer' = a
    /\ save_choice' = (Lower(Strip(a)) = <<"y">>)
    /\ mpc' = "run_detect"
    /\ UNCHANGED << nonSessionVars, caller, self_classes, menus, video_files,
                    selected_video, input_type, interval, limit,
                    confidence_threshold, reported, escaped, classesBefore >>

\* run_detection: process_video(...) returns the detections or raises.
RunDetect(outcome) ==
    /\ mpc = "run_detect"
    /\ (outcome = "StreamConnectionError" => VideoCaptureKind(selected_video) = "stream")
    /\ lastPrompt' = "run"
    /\ lastAnswer' = << outcome >>
    /\ IF outcome = "returned"
       THEN mpc' = "continue" /\ UNCHANGED << reported, escaped >>
       ELSE RaiseAt("detect", outcome)
    /\ UNCHANGED << nonSessionVars, caller, self_classes, menus, video_files,
                    selected_video, input_type, interval, limit,
                    confidence_threshold, save_choice, classesBefore >>

\* run(): "Press Enter to continue..." and the menu is displayed again.
PressEnter ==
    /\ mpc = "continue"
    /\ menus < MaxMenus
    /\ mpc' = "menu"
    /\ menus' = menus + 1
    /\ lastPrompt' = "enter"
    /\ lastAnswer' = << >>
    /\ UNCHANGED << nonSessionVars, caller, self_classes, video_files,
                    selected_video, input_type, interval, limit,
                    confidence_threshold, save_choice, reported, escaped,
                    classesBefore >>

NextSession ==
    \/ \E a \in MenuAnswers, ready \in BOOLEAN : Menu(a, ready)
    \/ \E assigned \in BOOLEAN, fails \in BOOLEAN, found_classes \in ClassLists :
          ProcessLabels(assigned, fails, found_classes)
    \/ \E a \in OptionAnswers, found \in 0..Len(MediaFiles) : AnswerOption(a, found)
    \/ \E a \in SelectAnswers : AnswerSelect(a)
    \/ \E a \in PathAnswers, exists \in BOOLEAN : AnswerPath(a, exists)
    \/ \E a \in YesNoAnswers : AnswerWebcamConfirm(a)
    \/ \E a \in CameraAnswers : AnswerCamera(a)
    \/ \E a \in UrlAnswers : AnswerUrl(a)
    \/ \E a \in YesNoAnswers : AnswerUrlConfirm(a)
    \/ \E a \in NumberAnswers : AnswerInterval(a)
    \/ \E a \in NumberAnswers : AnswerMax(a)
    \/ \E outcome \in ExtractOutcomes : RunExtract(outcome)
    \/ \E a \in ConfAnswers : AnswerConf(a)
    \/ \E a \in YesNoAnswers : AnswerSave(a)
    \/ \E outcome \in DetectOutcomes : RunDetect(outcome)
    \/ PressEnter

SpecSession == InitSession /\ [][NextSession]_vars

\* The answer typed at the prompt is one the prompt does not accept: not a
\* number, or a number outside the range asked for.
InvalidAnswer(prompt, a) ==
    LET s == Strip(a)
        n == ParseInt(s)
        x == ParseFloat(s)
    IN CASE prompt = "menu" -> s \notin { <<"1">>, <<"2">>, <<"3">>, <<"4">>, <<"5">> }
         [] prompt = "option" ->
                s # << >> /\ s \notin { <<"1">>, <<"2">>, <<"3">>, <<"4">> }
         [] prompt = "select" ->
                s # << >> /\ (~n.ok \/ n.val < 1 \/ n.val > video_files)
         [] prompt \in {"interval", "max"} -> s # << >> /\ (~n.ok \/ n.val <= 0)
         [] prompt = "camera" -> s # << >> /\ (~n.ok \/ n.val < 0)
         [] prompt = "conf" -> s # << >> /\ (~x.ok \/ x.nan \/ x.val < 0 \/ x.val > 100)
         [] OTHER -> FALSE

\* After "Press Enter to continue" the only thing run() does is display the
\* menu again.
MenuFollows == (mpc = "continue" /\ mpc' # "continue") => (mpc' = "menu" /\ menus' = menus + 1)

\* What run() has done with an answer the prompt does not accept.
Recovered ==
    InvalidAnswer(lastPrompt, lastAnswer) =>
        /\ mpc \notin {"terminated", "exited"}
        /\ escaped = "none"
        /\ CASE lastPrompt = "menu" -> mpc = "continue" /\ caller = "none"
             [] lastPrompt \in {"option", "select"} ->
                    mpc = "continue" /\ reported = "InvalidInputError" /\ input_type = "none"
             [] lastPrompt = "interval" -> interval = 30 /\ mpc \in {"max", "run_extract"}
             [] lastPrompt = "max" -> limit = NoLimit /\ mpc = "run_extract"
             [] lastPrompt = "camera" ->
                    selected_video = IntValue(0) /\ input_type = "camera" /\ mpc = AfterInput
             [] lastPrompt = "conf" -> confidence_threshold = 50 /\ mpc = "save"

\* C23: an out-of-range or non-numeric menu choice, video-input option, video
\* selection, frame interval, max-frames value, camera index or confidence
\* threshold never terminates run(): the documented default is used
\* (interval 30, threshold 0.5, unlimited frames, camera 0), or the step is
\* abandoned and the session is at "Press Enter to continue", after which
\* the menu is shown again.
C23_InvalidAnswerRecovers == []Recovered /\ [][MenuFollows]_vars

C23_Witness ==
    /\ lastPrompt = "select"
    /\ lastAnswer = <<"3">>
    /\ video_files = 2
    /\ mpc = "continue"
    /\ reported = "InvalidInputError"
    /\ menus = MaxMenus

\* C24: when process_video or extract_frames fails with a source-not-found,
\* source-open, stream-connect or model-load error, the error is reported,
\* the step is abandoned (the session is at "Press Enter to continue", from
\* where only the menu follows), the process does not exit and the stored
\* class list is the one the step started with.
C24_RunFailureReturnsToMenu ==
    /\ []((lastPrompt = "run" /\ lastAnswer[1] \in
              {"VideoProcessingError", "StreamConnectionError", "ModelLoadError"}) =>
             /\ reported = lastAnswer[1]
             /\ escaped = "none"
             /\ mpc = "continue"
             /\ self_classes = classesBefore)
    /\ [][(mpc = "continue" /\ lastPrompt = "run") => (mpc' = "menu" /\ self_classes' = classesBefore)]_vars

C24_Witness ==
    /\ lastPrompt = "run"
    /\ lastAnswer = <<"ModelLoadError">>
    /\ caller = "detect"
    /\ reported = "ModelLoadError"
    /\ mpc = "continue"
    /\ self_classes = <<"cat", "dog">>
    /\ menus = MaxMenus

\* C29: for every (value, type) pair get_video_input returns, VideoCapture
\* and extract_frames classify the value as the kind the type tag names, and
\* is_camera / is_stream agree with the tag.
C29_KindMatchesTag ==
    input_type # "none" =>
        /\ VideoCaptureKind(selected_video) = input_type
        /\ ExtractKind(selected_video) = input_type
        /\ is_camera(selected_video) = (input_type = "camera")
        /\ is_stream(selected_video) = (input_type = "stream")

====
